---- MODULE Spec2Model ----
(***************************************************************************)
(* Model of the lead-submission API (app.py): the /health and /api/lead    *)
(* handlers, the process-wide configuration read from the environment at   *)
(* import time, and the outbound SendGrid call seen as a black box whose   *)
(* outcome is an input of the request.                                     *)
(*                                                                         *)
(* Strings are sequences of one-character strings.  A JSON value is a      *)
(* record [t, s]: t is its type ("absent" for a key that is not in the     *)
(* object) and s is what Python's str() gives for it.                      *)
(***************************************************************************)
EXTENDS Integers, Sequences, FiniteSets, TLC

\* ---- bounds ----
\* longest generated string value of a payload field
MaxLen == 2
\* number of requests served in one behaviour
MaxRequests == 2

\* ---- strings and JSON values ----
Whitespace == {" "}

Chars == Whitespace \cup {"a"}

Strings == UNION {[1..k -> Chars] : k \in 0..MaxLen}

\* e-mail shaped values: well formed, no dot in the domain, two @
SampleEmails == {<<"a", "@", "a", ".", "a">>, <<"a", "@", "a">>, <<"a", "@", "@", "a", ".", "a">>}

Absent == [t |-> "absent", s |-> <<>>]

Null == [t |-> "null", s |-> <<>>]

Str(s) == [t |-> "str", s |-> s]

\* the JSON number 0: falsy in Python, but str(0) is "0"
Zero == [t |-> "num", s |-> <<"0">>]

FieldValues == {Absent, Null, Zero} \cup {Str(s) : s \in Strings}

EmailValues == FieldValues \cup {Str(s) : s \in SampleEmails}

RECURSIVE lstrip(_)
lstrip(s) == IF s = <<>> THEN s
             ELSE IF Head(s) \in Whitespace THEN lstrip(Tail(s)) ELSE s

RECURSIVE rstrip(_)
rstrip(s) == IF s = <<>> THEN s
             ELSE IF s[Len(s)] \in Whitespace THEN rstrip(SubSeq(s, 1, Len(s) - 1)) ELSE s

strip(s) == rstrip(lstrip(s))

\* a slip of _safe: str(v) without .strip()
_safe_nostrip(v) == IF v.t \in {"absent", "null"} THEN <<>> ELSE v.s

\* _safe(v): None -> "", otherwise str(v).strip()
_safe(v) == IF v.t \in {"absent", "null"} THEN <<>> ELSE strip(v.s)

\* ---- configuration (os.getenv(name, "")) ----
EnvValues == {[set |-> FALSE, v |-> <<>>], [set |-> TRUE, v |-> <<>>], [set |-> TRUE, v |-> <<"k">>]}

getenv(e, default) == IF e.set THEN e.v ELSE default

\* ---- requests ----
\* body.kind: what the request body is as JSON text
\*   "unparseable"      not JSON at all (get_json(silent=True) gives None)
\*   "falsy"            null, 0, false, "", [] (replaced by {} through `or {}`)
\*   "truthy_nonobject" [1], "abc", 5, true (kept as is by `or {}`)
\*   "object"           a JSON object with the three fields the handler reads
NonObjectKinds == {"unparseable", "falsy", "truthy_nonobject"}

Body(kind, name, email, message) == [kind |-> kind, name |-> name, email |-> email, message |-> message]

EmptyObject == Body("object", Absent, Absent, Absent)

Bodies == {Body(k, Absent, Absent, Absent) : k \in NonObjectKinds}
          \cup {Body("object", n, e, m) : n \in FieldValues, e \in EmailValues, m \in FieldValues}

LeadRequests == [route : {"/api/lead"}, method : {"POST", "OPTIONS"}, is_json : BOOLEAN, body : Bodies]

HealthRequest == [route |-> "/health", method |-> "GET", is_json |-> FALSE, body |-> EmptyObject]

NoRequest == [route |-> "", method |-> "", is_json |-> FALSE, body |-> EmptyObject]

\* ---- responses ----
\* kind: "json" (jsonify), "empty" (the ("", 204) tuple), "html" (Flask's
\* page for an exception that escapes the view), "none" (no response yet)
Response(kind, status, ok, error) == [kind |-> kind, status |-> status, ok |-> ok, error |-> error]

NoResponse == Response("none", 0, "none", "")

JsonError(status, error) == Response("json", status, "false", error)

JsonOk == Response("json", 200, "true", "")

Unhandled == Response("html", 500, "none", "")

\* ---- the provider (SendGridAPIClient, Mail, sg.send) ----
\* exc: "mail" (building the client or the Mail object raises), "send"
\* (sg.send raises), "none" (sg.send returns resp with resp.status_code)
StatusCodes == {200, 201, 202, 400}

ProviderOutcomes == {[exc |-> "mail", status |-> 0], [exc |-> "send", status |-> 0]}
                    \cup {[exc |-> "none", status |-> c] : c \in StatusCodes}

SendCall(name, email, from, to, prov) ==
    [op |-> "send", name |-> name, email |-> email, from_email |-> from, to_emails |-> to,
     exc |-> prov.exc, status |-> prov.status]

Result(response, calls) == [response |-> response, calls |-> calls]

\* ---- state ----
\* SENDGRID_API_KEY, FROM_EMAIL, SUPPORT_EMAIL: the module globals
\* request, response: the request being served and what the view returned
\* calls: the calls made to outside collaborators while serving it, in order
\* pc: "idle" between requests, "responded" once the view has returned
\* served: number of requests completed so far
VARIABLES SENDGRID_API_KEY, FROM_EMAIL, SUPPORT_EMAIL, request, response, calls, pc, served

vars == <<SENDGRID_API_KEY, FROM_EMAIL, SUPPORT_EMAIL, request, response, calls, pc, served>>

config == <<SENDGRID_API_KEY, FROM_EMAIL, SUPPORT_EMAIL>>

\* ---- the handler, piece by piece ----
\* a slip of the preflight branch: return ("", 200)
preflight_200(req) == IF req.method = "OPTIONS" THEN Response("empty", 200, "none", "") ELSE NoResponse

\* if request.method == "OPTIONS": return ("", 204)
preflight(req) == IF req.method = "OPTIONS" THEN Response("empty", 204, "none", "") ELSE NoResponse

_require_json(req) == IF ~req.is_json THEN JsonError(400, "Request must be JSON") ELSE NoResponse

\* request.get_json(silent=True) or {}
get_json_or_empty(req) == IF req.body.kind \in {"unparseable", "falsy"} THEN EmptyObject ELSE req.body

\* payload.get(key): None when the key is not there
payload_get(payload, key) == IF payload[key].t = "absent" THEN Null ELSE payload[key]

\* a slip of the required-field test: `and` for `or`
missing_required_all(name, email, message) == name = <<>> /\ email = <<>> /\ message = <<>>

\* if not name or not email or not message
missing_required(name, email, message) == name = <<>> \/ email = <<>> \/ message = <<>>

\* a slip of the configuration check: SUPPORT_EMAIL is not looked at
verify_config_no_support(key, from, to) ==
    IF key = <<>> THEN JsonError(500, "Server missing SENDGRID_API_KEY")
    ELSE IF from = <<>> THEN JsonError(500, "Server missing FROM_EMAIL")
    ELSE NoResponse

verify_config(key, from, to) ==
    IF key = <<>> THEN JsonError(500, "Server missing SENDGRID_API_KEY")
    ELSE IF from = <<>> THEN JsonError(500, "Server missing FROM_EMAIL")
    ELSE IF to = <<>> THEN JsonError(500, "Server missing SUPPORT_EMAIL")
    ELSE NoResponse

\* a slip of the status test: only 200 counts
accepted_only_200(status) == status = 200

\* a slip of the status test: any 2xx counts
accepted_any_2xx(status) == status >= 200 /\ status < 300

\* resp.status_code in (200, 202)
accepted(status) == status \in {200, 202}

\* a slip of the send: a second send after the provider declined
send_mail_retry(name, email, from, to, prov) ==
    IF prov.exc = "mail" THEN Result(JsonError(500, "Exception while sending email"), <<>>)
    ELSE LET call == SendCall(name, email, from, to, prov) IN
         IF prov.exc = "send" THEN Result(JsonError(500, "Exception while sending email"), <<call>>)
         ELSE IF ~accepted(prov.status) THEN Result(JsonError(502, "SendGrid send failed"), <<call, call>>)
         ELSE Result(JsonOk, <<call>>)

\* the try block: build the client and the Mail, send, map the outcome
send_mail(name, email, from, to, prov) ==
    IF prov.exc = "mail" THEN Result(JsonError(500, "Exception while sending email"), <<>>)
    ELSE LET call == SendCall(name, email, from, to, prov) IN
         IF prov.exc = "send" THEN Result(JsonError(500, "Exception while sending email"), <<call>>)
         ELSE IF ~accepted(prov.status) THEN Result(JsonError(502, "SendGrid send failed"), <<call>>)
         ELSE Result(JsonOk, <<call>>)

\* the view function of /api/lead, from the request and the provider's
\* behaviour to the response and the outside calls made
lead_result(req, prov) ==
    IF preflight(req) # NoResponse THEN Result(preflight(req), <<>>)
    ELSE IF _require_json(req) # NoResponse THEN Result(_require_json(req), <<>>)
    ELSE LET payload == get_json_or_empty(req) IN
         \* payload.get on a list, str, int or bool raises AttributeError
         IF payload.kind # "object" THEN Result(Unhandled, <<>>)
         ELSE LET name == _safe(payload_get(payload, "name"))
                  email == _safe(payload_get(payload, "email"))
                  message == _safe(payload_get(payload, "message"))
                  bad == verify_config(SENDGRID_API_KEY, FROM_EMAIL, SUPPORT_EMAIL)
              IN IF missing_required(name, email, message)
                 THEN Result(JsonError(400, "Missing required fields"), <<>>)
                 ELSE IF bad # NoResponse THEN Result(bad, <<>>)
                 ELSE send_mail(name, email, FROM_EMAIL, SUPPORT_EMAIL, prov)

\* ---- actions ----
Init ==
    /\ SENDGRID_API_KEY \in {getenv(e, <<>>) : e \in EnvValues}
    /\ FROM_EMAIL \in {getenv(e, <<>>) : e \in EnvValues}
    /\ SUPPORT_EMAIL \in {getenv(e, <<>>) : e \in EnvValues}
    /\ request = NoRequest
    /\ response = NoResponse
    /\ calls = <<>>
    /\ pc = "idle"
    /\ served = 0

\* GET /health
health ==
    /\ pc = "idle"
    /\ served < MaxRequests
    /\ request' = HealthRequest
    /\ response' = JsonOk
    /\ calls' = <<>>
    /\ pc' = "responded"
    /\ UNCHANGED <<config, served>>

\* POST or OPTIONS /api/lead
lead ==
    /\ pc = "idle"
    /\ served < MaxRequests
    /\ \E req \in LeadRequests, prov \in ProviderOutcomes :
          /\ request' = req
          /\ response' = lead_result(req, prov).response
          /\ calls' = lead_result(req, prov).calls
    /\ pc' = "responded"
    /\ UNCHANGED <<config, served>>

\* the request context ends: request, payload, sg, mail and resp are locals
\* of one call and are gone when the view has returned
teardown ==
    /\ pc = "responded"
    /\ request' = NoRequest
    /\ response' = NoResponse
    /\ calls' = <<>>
    /\ pc' = "idle"
    /\ served' = served + 1
    /\ UNCHANGED config

Next == health \/ lead \/ teardown

Spec == Init /\ [][Next]_vars

TypeOK ==
    /\ SENDGRID_API_KEY \in {<<>>, <<"k">>}
    /\ FROM_EMAIL \in {<<>>, <<"k">>}
    /\ SUPPORT_EMAIL \in {<<>>, <<"k">>}
    /\ request \in LeadRequests \cup {HealthRequest, NoRequest}
    /\ response.status \in {0, 200, 204, 400, 500, 502}
    /\ Len(calls) <= 1
    /\ pc \in {"idle", "responded"}
    /\ served \in 0..MaxRequests

\* ---- vocabulary of the properties ----
\* a POST /api/lead has been answered
IsPost == pc = "responded" /\ request.route = "/api/lead" /\ request.method = "POST"

\* an OPTIONS /api/lead has been answered
IsOptions == pc = "responded" /\ request.route = "/api/lead" /\ request.method = "OPTIONS"

\* the body is a JSON object, or something the handler takes for {}
IsMapping == request.body.kind # "truthy_nonobject"

\* absent, null, or nothing but whitespace
Blank(v) == v.t \in {"absent", "null"} \/ \A i \in 1..Len(v.s) : v.s[i] = " "

Field(key) == IF request.body.kind = "object" THEN request.body[key] ELSE Absent

AllPresent == ~Blank(Field("name")) /\ ~Blank(Field("email")) /\ ~Blank(Field("message"))

ConfigComplete == SENDGRID_API_KEY # <<>> /\ FROM_EMAIL # <<>> /\ SUPPORT_EMAIL # <<>>

SendCount == Cardinality({i \in DOMAIN calls : calls[i].op = "send"})

AppendCount == Cardinality({i \in DOMAIN calls : calls[i].op = "append"})

\* a POST with JSON content type and a mapping payload whose three
\* required fields are there
ValidPost == IsPost /\ request.is_json /\ IsMapping /\ AllPresent

\* ---- C1 ----
\* C1: a POST whose payload has name or email absent, null or blank is
\* answered 400 with ok:false, and neither a send nor an append is made,
\* whatever the configuration.
C1_MissingFieldRejected ==
    (IsPost /\ IsMapping /\ (Blank(Field("name")) \/ Blank(Field("email"))))
        => /\ response.status = 400
           /\ response.kind = "json"
           /\ response.ok = "false"
           /\ SendCount = 0
           /\ AppendCount = 0

\* a whitespace-only name with everything else in place and full configuration
C1_Witness ==
    /\ IsPost /\ request.is_json /\ request.body.kind = "object"
    /\ request.body.name = Str(<<" ">>)
    /\ ~Blank(request.body.email) /\ ~Blank(request.body.message)
    /\ ConfigComplete
    /\ response.status = 400
    /\ calls = <<>>

\* ---- C2 ----
\* C2: with valid fields and complete configuration the provider's outcome
\* decides the response: an exception gives 500 ok:false, a returned status
\* other than 200/202 gives 502 ok:false, a returned 200/202 gives 200 ok:true.
C2_OutcomeDecidesResponse ==
    (ValidPost /\ ConfigComplete)
        => /\ response.kind = "json"
           /\ (calls = <<>> \/ (Len(calls) = 1 /\ calls[1].exc = "send"))
                 => (response.status = 500 /\ response.ok = "false")
           /\ (Len(calls) = 1 /\ calls[1].exc = "none" /\ calls[1].status \notin {200, 202})
                 => (response.status = 502 /\ response.ok = "false")
           /\ (Len(calls) = 1 /\ calls[1].exc = "none" /\ calls[1].status \in {200, 202})
                 => (response.status = 200 /\ response.ok = "true")

\* the provider answered 202 and the client got 200 ok:true
C2_Witness ==
    /\ ValidPost /\ ConfigComplete
    /\ Len(calls) = 1 /\ calls[1].exc = "none" /\ calls[1].status = 202
    /\ response.status = 200 /\ response.ok = "true"

\* ---- C3 ----
MissingConfigErrors ==
    (IF SENDGRID_API_KEY = <<>> THEN {"Server missing SENDGRID_API_KEY"} ELSE {})
    \cup (IF FROM_EMAIL = <<>> THEN {"Server missing FROM_EMAIL"} ELSE {})
    \cup (IF SUPPORT_EMAIL = <<>> THEN {"Server missing SUPPORT_EMAIL"} ELSE {})

\* C3: with valid fields and the credential, the sender or the recipient
\* unset, the answer is 500 ok:false with an error naming a missing item,
\* and no send is attempted.
C3_MissingConfigFailsFast ==
    (ValidPost /\ ~ConfigComplete)
        => /\ response.status = 500
           /\ response.kind = "json"
           /\ response.ok = "false"
           /\ response.error \in MissingConfigErrors
           /\ SendCount = 0

\* only the recipient is unset
C3_Witness ==
    /\ ValidPost
    /\ SENDGRID_API_KEY # <<>> /\ FROM_EMAIL # <<>> /\ SUPPORT_EMAIL = <<>>
    /\ response.status = 500
    /\ response.error = "Server missing SUPPORT_EMAIL"
    /\ calls = <<>>

\* ---- C4 ----
\* C4 as stated: with configuration absent every parseable POST ends in the
\* 500 server-error outcome, whatever its fields.
C4_ConfigBeforeValidation ==
    (IsPost /\ request.is_json /\ request.body.kind # "unparseable" /\ ~ConfigComplete)
        => (response.status = 500 /\ response.kind = "json" /\ response.ok = "false")

\* C4 amended: with configuration absent the check comes after validation:
\* a JSON POST with a mapping payload ends in the 500 configuration outcome
\* exactly when its three required fields are there, and in the 400
\* missing-fields outcome otherwise; no send either way.
C4_ConfigAfterValidation ==
    (IsPost /\ request.is_json /\ IsMapping /\ ~ConfigComplete)
        => /\ response.kind = "json" /\ response.ok = "false"
           /\ AllPresent => (response.status = 500 /\ response.error \in MissingConfigErrors)
           /\ ~AllPresent => (response.status = 400 /\ response.error = "Missing required fields")
           /\ SendCount = 0

\* no credential, and a request with only the name missing is answered 400
C4_Witness ==
    /\ IsPost /\ request.is_json /\ request.body.kind = "object"
    /\ SENDGRID_API_KEY = <<>>
    /\ Blank(request.body.name) /\ ~Blank(request.body.email) /\ ~Blank(request.body.message)
    /\ response.status = 400

\* ---- C5 ----
AtCount(s) == Cardinality({i \in 1..Len(s) : s[i] = "@"})

DotInDomain(s) == \E i, j \in 1..Len(s) : s[i] = "@" /\ j > i /\ s[j] = "."

Malformed(s) == AtCount(s) # 1 \/ ~DotInDomain(s)

\* C5: a contact e-mail that is non-empty after trimming but has not exactly
\* one @ or has no dot in the domain is rejected with 400 as malformed (when
\* no required field is missing, the error is not the missing-field one),
\* and no send is made.
C5_MalformedEmailRejected ==
    (IsPost /\ request.is_json /\ request.body.kind = "object"
        /\ request.body.email.t = "str" /\ ~Blank(request.body.email)
        /\ Malformed(strip(request.body.email.s)))
        => /\ response.status = 400
           /\ AllPresent => response.error # "Missing required fields"
           /\ SendCount = 0

\* ---- C6 ----
\* C6: once validation has passed, a Recorder append is attempted before the
\* Notifier send.
C6_AppendBeforeSend ==
    (IsPost /\ SendCount > 0)
        => \E i, j \in DOMAIN calls : i < j /\ calls[i].op = "append" /\ calls[j].op = "send"

\* ---- C7 ----
\* the status a POST or OPTIONS gets, from that request, the configuration
\* and the provider's outcome alone
ExpectedStatus ==
    IF request.method = "OPTIONS" THEN 204
    ELSE IF ~request.is_json THEN 400
    ELSE IF ~IsMapping THEN 500
    ELSE IF ~AllPresent THEN 400
    ELSE IF ~ConfigComplete THEN 500
    ELSE IF calls = <<>> \/ calls[1].exc # "none" THEN 500
    ELSE IF calls[1].status \in {200, 202} THEN 200
    ELSE 502

\* C7: a request makes at most one send, whatever the provider answers, and
\* carries nothing over: the configuration never changes, and the status of
\* every request, however many were served before it, is the one its own
\* inputs give.
C7_AtMostOneSend ==
    /\ [](SendCount <= 1)
    /\ []((IsPost \/ IsOptions) => response.status = ExpectedStatus)
    /\ [][config' = config]_vars

\* a later request whose send the provider declined: one send, 502
C7_Witness ==
    /\ served >= 1
    /\ IsPost
    /\ SendCount = 1 /\ calls[1].exc = "none" /\ calls[1].status = 400
    /\ response.status = 502

\* ---- C8 ----
\* C8: every answer to a POST other than the success is a JSON object with
\* ok:false and an error string, whatever the body.
C8_FailuresAreStructured ==
    (IsPost /\ ~(response.status = 200 /\ response.ok = "true"))
        => (response.kind = "json" /\ response.ok = "false" /\ response.error # "")

\* ---- C9 ----
\* C9: OPTIONS /api/lead is answered 204 with an empty body whatever the
\* configuration, the content type and the body, and no send or append is made.
C9_PreflightAlways204 ==
    IsOptions => /\ response = Response("empty", 204, "none", "")
                 /\ calls = <<>>

\* a preflight with no credential, a non-JSON content type and an empty object
C9_Witness ==
    /\ IsOptions
    /\ SENDGRID_API_KEY = <<>>
    /\ ~request.is_json
    /\ request.body = EmptyObject
    /\ response.status = 204

\* ---- C10 ----
\* C10: 200 ok:true is the answer to a POST only when the request was JSON,
\* name, email and message were all there, the three settings were
\* non-empty, and exactly one send returned with status 200 or 202.
C10_SuccessOnlyIf ==
    (IsPost /\ response.status = 200 /\ response.ok = "true")
        => /\ request.is_json
           /\ request.body.kind = "object"
           /\ AllPresent
           /\ ConfigComplete
           /\ Len(calls) = 1
           /\ calls[1].op = "send"
           /\ calls[1].exc = "none"
           /\ calls[1].status \in {200, 202}

\* a success after the provider answered 200
C10_Witness ==
    /\ IsPost
    /\ response.status = 200 /\ response.ok = "true"
    /\ Len(calls) = 1 /\ calls[1].status = 200

====
